---- MODULE Spec2Model ----
(***************************************************************************)
(* The pattern-action query system of a10.py: the query loop, its          *)
(* tokenization of an input line, the pattern-action list pa_list, the     *)
(* dispatcher search_pa_list and the actions it calls.                     *)
(*                                                                         *)
(* A line of input is a sequence of one-character strings, a token is a    *)
(* sequence of characters, a query a sequence of tokens.  Answer strings   *)
(* are opaque and are TLA+ strings.                                        *)
(***************************************************************************)
EXTENDS Integers, Sequences, FiniteSets, TLC

VARIABLES
    pc,       \* where query_loop stands: "input", "search", "print", "exited", "crashed"
    line,     \* the text the last input() returned
    query,    \* query_loop's local `query`
    answers,  \* query_loop's local `answers`
    printed,  \* the answer lines printed since the current iteration began
    exc,      \* the exception that left query_loop uncaught, NoExc if none
    invoked,  \* the actions search_pa_list called in the current iteration
    calls,    \* the get_* retrieval functions entered in the current iteration
    solong    \* how many times the shutdown message was printed

vars == <<pc, line, query, answers, printed, exc, invoked, calls, solong>>

----------------------------------------------------------------------------
(* Bounds of the explored inputs. *)

\* longest wildcard filling, in tokens, of the queries built from the templates
MaxFill == 2
\* longest line, in characters, of the lines enumerated over LineAlphabet
MaxLine == 3

----------------------------------------------------------------------------
(* Characters and strings. *)

UpperChars ==
    <<"A", "B", "C", "D", "E", "F", "G", "H", "I", "J", "K", "L", "M",
      "N", "O", "P", "Q", "R", "S", "T", "U", "V", "W", "X", "Y", "Z">>

LowerChars ==
    <<"a", "b", "c", "d", "e", "f", "g", "h", "i", "j", "k", "l", "m",
      "n", "o", "p", "q", "r", "s", "t", "u", "v", "w", "x", "y", "z">>

\* the lowercase letter of each uppercase letter
LowerOf ==
    [c \in {UpperChars[i] : i \in 1..Len(UpperChars)} |->
        LowerChars[CHOOSE i \in 1..Len(UpperChars) : UpperChars[i] = c]]

\* str.lower() on one character
LowerChar(c) == IF c \in DOMAIN LowerOf THEN LowerOf[c] ELSE c

\* str.lower()
Lower(s) == [i \in 1..Len(s) |-> LowerChar(s[i])]

\* the characters str.split() treats as separators
IsSpace(c) == c \in {" ", "\t"}

\* str.replace("?", ""): every occurrence is removed
RemoveQuestionMarks(s) == SelectSeq(s, LAMBDA c : c # "?")

RECURSIVE SplitAcc(_, _, _)
SplitAcc(s, cur, acc) ==
    IF s = <<>>
    THEN IF cur = <<>> THEN acc ELSE Append(acc, cur)
    ELSE IF IsSpace(Head(s))
         THEN SplitAcc(Tail(s), <<>>, IF cur = <<>> THEN acc ELSE Append(acc, cur))
         ELSE SplitAcc(Tail(s), Append(cur, Head(s)), acc)

\* str.split() without arguments: runs of whitespace separate, no empty token
Split(s) == SplitAcc(s, <<>>, <<>>)

RECURSIVE Join(_)
\* " ".join(tokens)
Join(tokens) ==
    IF tokens = <<>> THEN <<>>
    ELSE IF Len(tokens) = 1 THEN tokens[1]
    ELSE tokens[1] \o <<" ">> \o Join(Tail(tokens))

\* input(...).rstrip("?").lower().split() in place of replace("?", "")
TokenizeTrailingOnly(s) ==
    Split(Lower(IF s # <<>> /\ s[Len(s)] = "?" THEN SubSeq(s, 1, Len(s) - 1) ELSE s))

\* input(...).replace("?", "").lower().split()
Tokenize(s) == Split(Lower(RemoveQuestionMarks(s)))

----------------------------------------------------------------------------
(* match(pattern, source), imported from match.py.  The result is a record: *)
(* ok tells a match from no match, bind is the wildcard's binding.          *)

Wild == <<"%">>

NoMatch == [ok |-> FALSE, bind |-> <<>>]

Matched(b) == [ok |-> TRUE, bind |-> b]

RECURSIVE match(_, _)
match(pat, src) ==
    IF pat = <<>>
    THEN IF src = <<>> THEN Matched(<<>>) ELSE NoMatch
    ELSE IF Head(pat) = Wild
    THEN IF Len(pat) = 1
         THEN Matched(src)
         ELSE LET fits == {k \in 1..Len(src) :
                              match(Tail(pat), SubSeq(src, k + 1, Len(src))).ok}
              IN  IF fits = {} THEN NoMatch
                  ELSE LET k == CHOOSE n \in fits : \A m \in fits : n <= m
                           rest == match(Tail(pat), SubSeq(src, k + 1, Len(src)))
                       IN  Matched(SubSeq(src, 1, k) \o rest.bind)
    ELSE IF src # <<>> /\ Lower(Head(src)) = Lower(Head(pat))
         THEN match(Tail(pat), Tail(src))
         ELSE NoMatch

----------------------------------------------------------------------------
(* Exceptions and the retrieval functions. *)

NoExc == [kind |-> "none", at |-> 0]

Raise(kind, at) == [kind |-> kind, at |-> at]

\* What the encyclopedia holds for a subject: the page with the fact, no search
\* result, a page without infobox, an infobox without the fact.
Worlds == {"found", "noresults", "noinfobox", "nomatch"}

\* get_page_html, get_first_infobox_text and get_match, in the order they are called
PageOutcome(w) ==
    IF w = "noresults" THEN Raise("IndexError", 20)
    ELSE IF w = "noinfobox" THEN Raise("LookupError", 36)
    ELSE IF w = "nomatch" THEN Raise("AttributeError", 74)
    ELSE NoExc

Retrieved(fn, name, val, e) ==
    [val |-> val, exc |-> e, calls |-> <<[fn |-> fn, arg |-> name]>>]

get_polar_radius(planet_name, w) ==
    Retrieved("get_polar_radius", planet_name, "radius", PageOutcome(w))

get_birth_date(name, w) ==
    Retrieved("get_birth_date", name, "birth", PageOutcome(w))

get_city_pop(name, w) ==
    IF name = <<>>
    THEN Retrieved("get_city_pop", name, "", Raise("ValueError", 124))
    ELSE Retrieved("get_city_pop", name, "population", PageOutcome(w))

get_city_coords(name, w) ==
    IF name = <<>>
    THEN Retrieved("get_city_coords", name, "", Raise("ValueError", 143))
    ELSE Retrieved("get_city_coords", name, "coordinates", PageOutcome(w))

get_city_country(name, w) ==
    IF name = <<>>
    THEN Retrieved("get_city_country", name, "", Raise("ValueError", 161))
    ELSE Retrieved("get_city_country", name, "country", PageOutcome(w))

----------------------------------------------------------------------------
(* The actions.  ret is the list returned, meaningful when exc = NoExc. *)

Returned(list) == [ret |-> list, exc |-> NoExc, calls |-> <<>>]

Raised(e) == [ret |-> <<>>, exc |-> e, calls |-> <<>>]

\* [f(x)]: the one-element list of a retrieval's value, or its exception
ListOf(r) == [ret |-> IF r.exc = NoExc THEN <<r.val>> ELSE <<>>,
              exc |-> r.exc, calls |-> r.calls]

birth_date(matches, w) == ListOf(get_birth_date(Join(matches), w))

polar_radius(matches, w) ==
    IF matches = <<>>
    THEN Raised(Raise("IndexError", 195))
    ELSE ListOf(get_polar_radius(matches[1], w))

\* city_pop without its test of the binding: matches[0] raises on the empty list
city_pop_unguarded(matches, w) ==
    IF matches = <<>>
    THEN Raised(Raise("IndexError", 209))
    ELSE ListOf(get_city_pop(matches[1], w))

city_pop(matches, w) ==
    IF matches = <<>> \/ matches[1] = <<>>
    THEN Returned(<<"No city specified">>)
    ELSE ListOf(get_city_pop(matches[1], w))

city_coords(matches, w) ==
    IF matches = <<>> \/ matches[1] = <<>>
    THEN Returned(<<"No city specified">>)
    ELSE ListOf(get_city_coords(matches[1], w))

city_country(matches, w) ==
    IF matches = <<>> \/ matches[1] = <<>>
    THEN Returned(<<"No city specified">>)
    ELSE ListOf(get_city_country(matches[1], w))

bye_action(dummy, w) == Raised(Raise("KeyboardInterrupt", 240))

----------------------------------------------------------------------------
(* The pattern-action list. *)

\* the birth template without its final literal
StrBirthNoFinal ==
    <<"w", "h", "e", "n", " ", "w", "a", "s", " ", "%">>

StrBirth ==
    <<"w", "h", "e", "n", " ", "w", "a", "s", " ", "%", " ", "b", "o", "r", "n">>

StrRadius ==
    <<"w", "h", "a", "t", " ", "i", "s", " ", "t", "h", "e", " ",
      "p", "o", "l", "a", "r", " ", "r", "a", "d", "i", "u", "s", " ",
      "o", "f", " ", "%">>

StrPop ==
    <<"w", "h", "a", "t", " ", "i", "s", " ", "t", "h", "e", " ",
      "p", "o", "p", "u", "l", "a", "t", "i", "o", "n", " ", "o", "f", " ", "%">>

StrCoords ==
    <<"w", "h", "a", "t", " ", "a", "r", "e", " ", "t", "h", "e", " ",
      "c", "o", "o", "r", "d", "i", "n", "a", "t", "e", "s", " ",
      "o", "f", " ", "%">>

StrCountry ==
    <<"w", "h", "a", "t", " ", "c", "o", "u", "n", "t", "r", "y", " ",
      "i", "s", " ", "%", " ", "i", "n">>

Bye == <<"b", "y", "e">>

Entry(pat, act) == [pat |-> pat, act |-> act]

\* the list with the population template pasted onto the coordinates entry
pa_list_pasted ==
    << Entry(Split(StrBirth), "birth_date"),
       Entry(Split(StrRadius), "polar_radius"),
       Entry(Split(StrPop), "city_pop"),
       Entry(Split(StrPop), "city_coords"),
       Entry(Split(StrCountry), "city_country"),
       Entry(<<Bye>>, "bye_action") >>

pa_list ==
    << Entry(Split(StrBirth), "birth_date"),
       Entry(Split(StrRadius), "polar_radius"),
       Entry(Split(StrPop), "city_pop"),
       Entry(Split(StrCoords), "city_coords"),
       Entry(Split(StrCountry), "city_country"),
       Entry(<<Bye>>, "bye_action") >>

\* act(mat): the call of an entry's action
Call(act, mat, w) ==
    CASE act = "birth_date" -> birth_date(mat, w)
      [] act = "polar_radius" -> polar_radius(mat, w)
      [] act = "city_pop" -> city_pop(mat, w)
      [] act = "city_coords" -> city_coords(mat, w)
      [] act = "city_country" -> city_country(mat, w)
      [] act = "bye_action" -> bye_action(mat, w)

----------------------------------------------------------------------------
(* search_pa_list. *)

\* return ["I don't understand"]
NoMatchAnswerMixedUp == <<"No answers">>

NoMatchAnswer == <<"I don't understand">>

\* answer if answer else ["No answers"]
NormalizeInverted(answer) == IF answer = <<>> THEN answer ELSE <<"No answers">>

Normalize(answer) == IF answer # <<>> THEN answer ELSE <<"No answers">>

Invocation(i, act, mat, a) ==
    [entry |-> i, act |-> act, arg |-> mat, ret |-> a.ret, exc |-> a.exc]

RECURSIVE SearchList(_, _, _, _)
\* the loop over the list from entry i on, and the fallback after it
SearchList(list, i, src, w) ==
    IF i > Len(list)
    THEN [ret |-> NoMatchAnswer, exc |-> NoExc,
          invoked |-> <<>>, calls |-> <<>>]
    ELSE LET mat == match(list[i].pat, src)
         IN  IF mat.ok
             THEN LET a == Call(list[i].act, mat.bind, w)
                  IN  [ret |-> IF a.exc = NoExc THEN Normalize(a.ret) ELSE <<>>,
                       exc |-> a.exc,
                       invoked |-> <<Invocation(i, list[i].act, mat.bind, a)>>,
                       calls |-> a.calls]
             ELSE SearchList(list, i + 1, src, w)

\* the loop starting at the second entry
search_pa_list_from_second(src, w) == SearchList(pa_list, 2, src, w)

search_pa_list(src, w) == SearchList(pa_list, 1, src, w)

----------------------------------------------------------------------------
(* The input lines explored. *)

X == <<"x">>
Born == <<"b", "o", "r", "n">>
In == <<"i", "n">>

\* the words a wildcard is filled with: a plain word and two template literals
FillWords == {X, Born, In}

RECURSIVE SeqsUpTo(_, _)
\* the sequences over S of length at most n
SeqsUpTo(S, n) ==
    IF n = 0 THEN {<<>>}
    ELSE LET shorter == SeqsUpTo(S, n - 1)
         IN  shorter \cup {Append(s, e) : s \in {t \in shorter : Len(t) = n - 1}, e \in S}

Fills == SeqsUpTo(FillWords, MaxFill)

RECURSIVE Fill(_, _)
\* the template with its wildcard replaced by the tokens f
Fill(pat, f) ==
    IF pat = <<>> THEN <<>>
    ELSE IF Head(pat) = Wild THEN f \o Fill(Tail(pat), f)
    ELSE <<Head(pat)>> \o Fill(Tail(pat), f)

Instances == {Fill(pa_list[i].pat, f) : i \in 1..Len(pa_list), f \in Fills}

\* an instance, an instance cut short by a token, or one with a token added
Queries ==
    Instances
    \cup {SubSeq(q, 1, Len(q) - 1) : q \in {r \in Instances : r # <<>>}}
    \cup {Append(q, X) : q \in Instances}
    \cup {<<X>> \o q : q \in Instances}

LineAlphabet == {"a", "B", "?", " "}

ShortLines == SeqsUpTo(LineAlphabet, MaxLine)

UpperChar(c) ==
    IF \E i \in 1..Len(LowerChars) : LowerChars[i] = c
    THEN UpperChars[CHOOSE i \in 1..Len(LowerChars) : LowerChars[i] = c]
    ELSE c

KeyLines ==
    {Join(<<Bye>>), Join(Fill(pa_list[1].pat, <<X>>)), Join(Fill(pa_list[3].pat, <<>>)),
     Join(Fill(pa_list[2].pat, <<X>>))}

\* a line as a user may type it: question marks, capitals, extra blanks
Typed(l) ==
    { l \o <<"?">>,
      l \o <<"?", " ">>,
      l \o <<"?", "?">>,
      <<"?">> \o l,
      <<l[1], "?">> \o Tail(l),
      <<UpperChar(l[1])>> \o Tail(l),
      [i \in 1..Len(l) |-> UpperChar(l[i])],
      <<" ">> \o l \o <<"\t", " ">> }

Lines ==
    {Join(q) : q \in Queries}
    \cup ShortLines
    \cup UNION {Typed(l) : l \in KeyLines}

----------------------------------------------------------------------------
(* query_loop. *)

Init ==
    /\ pc = "input"
    /\ line = <<>>
    /\ query = <<>>
    /\ answers = <<>>
    /\ printed = <<>>
    /\ exc = NoExc
    /\ invoked = <<>>
    /\ calls = <<>>
    /\ solong = 0

\* except EOFError alone
CaughtEOFOnly(e) == e.kind \in {"EOFError"}

\* a bare except
CaughtAny(e) == TRUE

\* the exceptions query_loop catches
Caught(e) == e.kind \in {"KeyboardInterrupt", "EOFError"}

\* input() returns a line, which is tokenized into query
ReadLine ==
    /\ pc = "input"
    /\ \E l \in Lines :
          /\ line' = l
          /\ query' = Tokenize(l)
    /\ pc' = "search"
    /\ printed' = <<>>
    /\ invoked' = <<>>
    /\ calls' = <<>>
    /\ UNCHANGED <<answers, exc, solong>>

\* input() raises EOFError (end of input) or KeyboardInterrupt (Ctrl-C):
\* the loop breaks and the shutdown message is printed
EndOfInput ==
    /\ pc = "input"
    /\ pc' = "exited"
    /\ solong' = solong + 1
    /\ printed' = <<>>
    /\ invoked' = <<>>
    /\ calls' = <<>>
    /\ UNCHANGED <<line, query, answers, exc>>

\* answers = search_pa_list(query): it returns the answers, or it raises an
\* exception that query_loop catches (the loop breaks and the shutdown message is
\* printed) or does not catch (the exception leaves query_loop)
Search ==
    /\ pc = "search"
    /\ \E w \in Worlds :
          LET r == search_pa_list(query, w)
          IN  /\ invoked' = r.invoked
              /\ calls' = r.calls
              /\ \/ /\ r.exc = NoExc
                    /\ answers' = r.ret
                    /\ pc' = "print"
                    /\ UNCHANGED <<exc, solong>>
                 \/ /\ r.exc # NoExc
                    /\ Caught(r.exc)
                    /\ pc' = "exited"
                    /\ solong' = solong + 1
                    /\ UNCHANGED <<answers, exc>>
                 \/ /\ r.exc # NoExc
                    /\ ~Caught(r.exc)
                    /\ pc' = "crashed"
                    /\ exc' = r.exc
                    /\ UNCHANGED <<answers, solong>>
    /\ UNCHANGED <<line, query, printed>>

\* for ans in answers: print(ans)
PrintAnswers ==
    /\ pc = "print"
    /\ printed' = printed \o answers
    /\ pc' = "input"
    /\ UNCHANGED <<line, query, answers, exc, invoked, calls, solong>>

Next ==
    \/ ReadLine
    \/ EndOfInput
    \/ Search
    \/ PrintAnswers

Spec == Init /\ [][Next]_vars

----------------------------------------------------------------------------
(* Vocabulary of the properties. *)

\* search_pa_list was called in the current iteration and has returned or raised
Searched == pc \in {"print", "crashed"} \/ (pc = "exited" /\ invoked # <<>>)

\* the entries of a list whose template matches the tokens q
MatchingIn(list, q) == {i \in 1..Len(list) : match(list[i].pat, q).ok}

Matching(q) == MatchingIn(pa_list, q)

Least(S) == CHOOSE n \in S : \A m \in S : n <= m

DomainActions ==
    {"birth_date", "polar_radius", "city_pop", "city_coords", "city_country"}

\* an exception raised inside the retrieval functions (lines 10 to 167)
RetrievalFailure(e) ==
    /\ e.kind \in {"LookupError", "IndexError", "AttributeError", "ValueError"}
    /\ e.at \in 10..167

RECURSIVE Flatten(_)
Flatten(tokens) ==
    IF tokens = <<>> THEN <<>> ELSE Head(tokens) \o Flatten(Tail(tokens))

\* strip one trailing question mark, lowercase, split on whitespace
RefTokenize(s) ==
    Split(Lower(IF s # <<>> /\ s[Len(s)] = "?" THEN SubSeq(s, 1, Len(s) - 1) ELSE s))

\* the line has a question mark before its last character
InnerQuestionMark(s) == \E i \in 1..(Len(s) - 1) : s[i] = "?"

When == <<"w", "h", "e", "n">>
Was == <<"w", "a", "s">>
What == <<"w", "h", "a", "t">>
Is == <<"i", "s">>
The == <<"t", "h", "e">>
Population == <<"p", "o", "p", "u", "l", "a", "t", "i", "o", "n">>
Of == <<"o", "f">>
Country == <<"c", "o", "u", "n", "t", "r", "y">>

\* q is the literals lead, then at least one token, then the literal final
Framed(q, lead, final) ==
    /\ Len(q) >= Len(lead) + 2
    /\ SubSeq(q, 1, Len(lead)) = lead
    /\ q[Len(q)] = final

Between(q, lead) == SubSeq(q, Len(lead) + 1, Len(q) - 1)

\* the list in which every entry occurs twice: every match has a later match
Doubled == pa_list \o pa_list

Reversed(list) == [i \in 1..Len(list) |-> list[Len(list) + 1 - i]]

----------------------------------------------------------------------------
(* The properties. *)

\* C1: search_pa_list invokes the action of the first entry (in list order) whose
\* template matches the query, with the binding of that match, and no other
\* action: one action per dispatch when an entry matches, none otherwise; and
\* over a list in which a later entry matches too, only the earlier is invoked.
C1_FirstMatchOnly ==
    Searched =>
        /\ Len(invoked) <= 1
        /\ Matching(query) = {} => invoked = <<>>
        /\ Matching(query) # {} =>
              /\ Len(invoked) = 1
              /\ invoked[1].entry = Least(Matching(query))
              /\ invoked[1].act = pa_list[Least(Matching(query))].act
              /\ invoked[1].arg = match(pa_list[Least(Matching(query))].pat, query).bind
        /\ \A w \in Worlds :
              LET r == SearchList(Doubled, 1, query, w)
              IN  /\ Len(r.invoked) <= 1
                  /\ MatchingIn(Doubled, query) # {} =>
                        /\ Len(r.invoked) = 1
                        /\ r.invoked[1].entry = Least(MatchingIn(Doubled, query))
                        /\ r.invoked[1].entry <= Len(pa_list)

\* a dispatch whose first matching entry is not the first entry of the list
C1_Witness ==
    /\ pc = "print"
    /\ Len(invoked) = 1
    /\ invoked[1].entry = 4
    /\ Cardinality(MatchingIn(Doubled, query)) = 2

\* C2: when no template matches the query, search_pa_list returns exactly
\* ["I don't understand"] and invokes no action; and it returns that list only
\* when no template matched.
C2_NoMatchFallback ==
    /\ Searched /\ Matching(query) = {} =>
          /\ pc = "print"
          /\ answers = <<"I don't understand">>
          /\ invoked = <<>>
          /\ calls = <<>>
    /\ pc = "print" /\ answers = <<"I don't understand">> => Matching(query) = {}

\* a query of several tokens that no template matches
C2_Witness ==
    /\ pc = "print"
    /\ answers = <<"I don't understand">>
    /\ Len(query) >= 4
    /\ query[1] = When

\* C3: when a template matched and its action returned, search_pa_list returns
\* the action's list unchanged if it is not empty and ["No answers"] if it is
\* empty; search_pa_list never returns the empty list.
C3_NormalizedAnswer ==
    pc = "print" =>
        /\ answers # <<>>
        /\ invoked # <<>> =>
              /\ invoked[1].exc = NoExc
              /\ invoked[1].ret # <<>> => answers = invoked[1].ret
              /\ invoked[1].ret = <<>> => answers = <<"No answers">>

\* a retrieval's answer returned unchanged
C3_Witness ==
    /\ pc = "print"
    /\ invoked # <<>>
    /\ invoked[1].ret = <<"birth">>
    /\ answers = <<"birth">>

\* C4: once "bye" is dispatched or the input ends, the loop stops before any
\* further read: the query bye leads from the search to the exit only, the exit
\* has printed no answer line in that iteration, the shutdown message exactly
\* once, is no error, and nothing follows it.
C4_StopState ==
    /\ pc = "exited" => solong = 1 /\ printed = <<>> /\ exc = NoExc
    /\ pc # "exited" => solong = 0
    /\ Searched /\ query = <<Bye>> => pc = "exited"

C4_StopStep ==
    /\ pc = "exited" => UNCHANGED vars
    /\ pc = "search" /\ query = <<Bye>> => pc' = "exited" /\ solong' = 1
    /\ pc = "input" /\ pc' # "search" => pc' = "exited" /\ solong' = 1 /\ printed' = <<>>

\* C4: the stop holds in every state (C4_StopState) and of every step
\* (C4_StopStep): after bye or the end of input the loop stops before any read.
C4_GracefulStop == [](C4_StopState) /\ [][C4_StopStep]_vars

\* the loop left by the query bye, typed with a question mark and a blank
C4_Witness ==
    /\ pc = "exited"
    /\ line = <<"b", "y", "e", "?", " ">>
    /\ query = <<Bye>>
    /\ Len(invoked) = 1
    /\ invoked[1].act = "bye_action"

\* C5: for every binding the matcher hands to it, a domain action returns a
\* one-element list or raises a failure of the retrieval functions; no other
\* outcome (an index error on the binding) is possible.
C5_ActionOutcomes ==
    Searched /\ invoked # <<>> /\ invoked[1].act \in DomainActions =>
        \/ invoked[1].exc = NoExc /\ Len(invoked[1].ret) = 1
        \/ RetrievalFailure(invoked[1].exc)

\* C6: the query what is the population of, without a city, matches the
\* population template with the empty binding, and search_pa_list returns
\* exactly ["No city specified"] without entering a retrieval function.
C6_NoCity ==
    Searched /\ query = <<What, Is, The, Population, Of>> =>
        /\ pc = "print"
        /\ answers = <<"No city specified">>
        /\ calls = <<>>
        /\ Len(invoked) = 1
        /\ invoked[1].act = "city_pop"
        /\ invoked[1].arg = <<>>

C6_Witness ==
    /\ pc = "print"
    /\ query = <<What, Is, The, Population, Of>>
    /\ answers = <<"No city specified">>

\* C7, as claimed: the tokens passed to search_pa_list are those of the line with
\* one trailing question mark stripped, lowercased and split on whitespace, for
\* every line, a question mark that is not at the end included.
C7_TrailingOnly == pc = "search" => query = RefTokenize(line)

\* C7, amended: the tokenization removes every question mark of the line,
\* lowercases and splits on whitespace: no token is empty or holds a question
\* mark, a blank or a capital; the tokens are the line's other characters in
\* order, one token per run of them between blanks; and they are the tokens of
\* the trailing-only tokenization when no question mark precedes the line's end.
C7_EveryQuestionMark ==
    pc = "search" =>
        LET kept == SelectSeq(line, LAMBDA c : c # "?")
            solid == SelectSeq(kept, LAMBDA c : ~IsSpace(c))
        IN  /\ \A i \in 1..Len(query) :
                  /\ query[i] # <<>>
                  /\ \A j \in 1..Len(query[i]) :
                        /\ query[i][j] # "?"
                        /\ ~IsSpace(query[i][j])
                        /\ query[i][j] \notin {UpperChars[k] : k \in 1..Len(UpperChars)}
            /\ Flatten(query) = [i \in 1..Len(solid) |-> LowerChar(solid[i])]
            /\ Len(query) = Cardinality({i \in 1..Len(kept) :
                                 ~IsSpace(kept[i]) /\ (i = 1 \/ IsSpace(kept[i - 1]))})
            /\ ~InnerQuestionMark(line) => query = RefTokenize(line)

\* a line with a question mark inside a word, where the two tokenizations differ
C7_Witness ==
    /\ pc = "search"
    /\ InnerQuestionMark(line)
    /\ query = <<Bye>>
    /\ RefTokenize(line) # <<Bye>>

\* C8: for the templates of literals, one wildcard and one final literal (when
\* was % born, what country is % in), the match succeeds iff the query begins
\* with the leading literals, ends with the final literal and has at least one
\* token between; the binding is then exactly the tokens between.
C8_FramedWildcard ==
    Searched =>
        /\ Framed(query, <<When, Was>>, Born)
              <=> (invoked # <<>> /\ invoked[1].act = "birth_date")
        /\ Framed(query, <<When, Was>>, Born)
              => invoked[1].arg = Between(query, <<When, Was>>)
        /\ Framed(query, <<What, Country, Is>>, In)
              <=> (invoked # <<>> /\ invoked[1].act = "city_country")
        /\ Framed(query, <<What, Country, Is>>, In)
              => invoked[1].arg = Between(query, <<What, Country, Is>>)

\* a binding of two tokens, the second of them the template's final literal
C8_Witness ==
    /\ Searched
    /\ query = <<When, Was, X, Born, Born>>
    /\ invoked[1].arg = <<X, Born>>

\* C9: a retrieval failure raised by a matched action is not turned into an
\* answer list and is not caught by query_loop: it leaves the loop, with no
\* answer line and no shutdown message printed and nothing read after it; a
\* query without match, or with answers, is followed by the next read.
C9_FailureState ==
    /\ Searched /\ invoked # <<>> /\ RetrievalFailure(invoked[1].exc) =>
          /\ pc = "crashed"
          /\ exc = invoked[1].exc
    /\ pc = "crashed" => printed = <<>> /\ solong = 0 /\ exc # NoExc
    /\ Searched /\ Matching(query) = {} => pc = "print"
    /\ pc # "crashed" => exc = NoExc

C9_FailureStep ==
    /\ pc = "crashed" => UNCHANGED vars
    /\ pc = "print" => pc' = "input" /\ printed' = answers

\* C9: a retrieval failure leaves the loop in every state (C9_FailureState) and
\* nothing follows it, while a printed answer is followed by the next read
\* (C9_FailureStep).
C9_FailurePropagates == [](C9_FailureState) /\ [][C9_FailureStep]_vars

C9_Witness ==
    /\ pc = "crashed"
    /\ exc = Raise("AttributeError", 74)
    /\ calls # <<>>

\* C10: with the six templates of pa_list, at most one template matches any
\* query, and search_pa_list gives the same result over the list reordered (in
\* the reverse order, the last matching entry comes first).
C10_AtMostOneMatch ==
    pc = "search" =>
        /\ Cardinality(Matching(query)) <= 1
        /\ \A w \in Worlds :
              LET r == search_pa_list(query, w)
                  v == SearchList(Reversed(pa_list), 1, query, w)
              IN  /\ v.ret = r.ret
                  /\ v.exc = r.exc
                  /\ v.calls = r.calls
                  /\ Len(v.invoked) = Len(r.invoked)
                  /\ r.invoked # <<>> =>
                        /\ v.invoked[1].act = r.invoked[1].act
                        /\ v.invoked[1].arg = r.invoked[1].arg

\* a query that one template matches
C10_Witness ==
    /\ pc = "search"
    /\ Matching(query) = {3}
    /\ Len(query) = 7

====
